---- MODULE Spec2Model ----
(***************************************************************************)
(* Model of the CDI serial driver: the telemetry monitor (cdi_monitor.py)  *)
(* and the ignition-map tool (cdi_ignition_map.py).                        *)
(*                                                                         *)
(*   SpecDecode  decode_cdi_packet applied to bounded frames               *)
(*   SpecCodec   the map encoding (struct.pack '<H') and its read-back     *)
(*   SpecTool    a CDIIgnitionMap object driven by main() or by a caller   *)
(*   Spec        the monitor: main, connect_and_read_data, connect_to_cdi  *)
(*   SpecLive    the monitor whose program steps are taken eventually      *)
(***************************************************************************)
EXTENDS Integers, Sequences, FiniteSets, TLC

VARIABLES
  \* ---- decode_cdi_packet under test
  data,        \* the frame handed to decode_cdi_packet
  decoded,     \* <<>> before the call, <<result>> after it
  \* ---- the map encoding under test
  values,      \* the sequence of 16-bit values to encode
  data_bytes,  \* the bytes produced so far (bytearray data_bytes)
  readback,    \* <<>> before the read-back, <<sequence of values>> after it
  \* ---- the ignition-map tool
  tpc,         \* position of the tool's flow of control
  caller,      \* "main" (the script's main()) or "api" (any caller of the class)
  ser,         \* self.ser: 0 is None, otherwise the id of a serial port object
  tports,      \* port objects created by the tool: id -> [open, dtr, rts, closes]
  map_data,    \* the argument of the running write_ignition_map call
  wi,          \* index of the value / pair being written (0-based)
  wj,          \* index of the byte inside the pair (0-based)
  tx,          \* bytes written to the port by the running (or last) operation
  slept,       \* for each byte of tx: did a delay follow it before the next write
  response,    \* what the best-effort read returned
  result,      \* the return value of the last operation, "" while there is none
  raised,      \* the exception propagating out of the last operation, "" if none
  op,          \* the operation of the class that runs or ran last
  \* ---- the monitor
  pc,          \* position of the monitor's flow of control
  ports,       \* port objects created by the monitor: id -> [open, dtr, rts, closes]
  cport,       \* connect_to_cdi's local port: 0 unbound, otherwise a port id
  port,        \* connect_and_read_data's local port: 0 when not in locals()
  round,       \* the handshake round, 1 or 2
  bi,          \* index of the next byte of the frame being written (0-based)
  rxbuf,       \* input buffer of the port in use: bytes, each with its request
  pending,     \* bytes the device has sent that have not arrived yet
  reqs,        \* request frames written in full on the port in use
  mtx,         \* bytes written in the running handshake round or poll cycle
  hs,          \* the rounds of the handshake that runs or has just returned:
               \* for each finished round the bytes written and response seen
  data_req,    \* for each byte of data: the request it answers
  exc,         \* the exception on its way out of connect_and_read_data, "" if none
  ret,         \* the return value of connect_and_read_data, "" for None
  polls,       \* poll cycles started
  row,         \* the table row pretty_print printed in the running poll cycle
  interrupted  \* Ctrl+C has been pressed

decVars == <<data, decoded>>
codecVars == <<values, data_bytes, readback>>
toolVars == <<tpc, caller, ser, tports, map_data, wi, wj, tx, slept, response,
              result, raised, op>>
monVars == <<pc, ports, cport, port, round, bi, rxbuf, pending, reqs, mtx, hs,
             data_req, exc, ret, polls, row, interrupted>>

-----------------------------------------------------------------------------
(* Protocol constants *)

FRAME_LEN == 22
HEADER == 3
TRAILER == 169
WRITE_CMD == 13
U16 == 65536

init_bytes == <<1, 171, 172, 161>>

test_values == <<4730, 6375, 7573, 8914, 10268, 11336, 11926, 12891,
                 13975, 15070, 16000, 0, 0, 0, 0, 0>>

sequence == <<122, 18, 231, 24, 149, 29, 210, 34, 28, 40, 72, 44, 150, 46,
              91, 50, 151, 54, 222, 58, 128, 62, 88, 2, 119, 2, 62, 4, 25, 7,
              152, 9>>

-----------------------------------------------------------------------------
(* Bounds of the model *)

\* frames of 0..MaxFrameLen bytes are handed to the decoder
MaxFrameLen == 23
\* maps of 0..MaxMapLen values are encoded
MaxMapLen == 3

-----------------------------------------------------------------------------
(* Integer operations of the source *)

\* Python's a | b on non-negative integers
RECURSIVE BitOr(_, _)
BitOr(a, b) ==
  IF a = 0 THEN b
  ELSE IF b = 0 THEN a
  ELSE (IF a % 2 = 1 \/ b % 2 = 1 THEN 1 ELSE 0) + 2 * BitOr(a \div 2, b \div 2)

\* Python's a << 8 (integers are unbounded: no bit is lost)
Shl8(a) == a * 256

\* Python's sequences index from 0, TLA+'s from 1
At(s, i) == s[i + 1]

None == <<>>
Some(v) == <<v>>

-----------------------------------------------------------------------------
(* decode_cdi_packet *)

\* data[7] / 10.0, kept exact: whole volts and tenths of a volt
DivTen(b) == [volts |-> b \div 10, tenths |-> b % 10]

\* a faulty variant: the header and trailer are not checked
decode_no_sync(d) ==
  IF Len(d) # FRAME_LEN
    THEN None
    ELSE Some([rpm |-> BitOr(Shl8(At(d, 1)), At(d, 2)),
               battery |-> DivTen(At(d, 7)),
               status_byte |-> At(d, 8),
               timing_byte |-> At(d, 9)])

\* a faulty variant: status and timing are taken from each other's byte
decode_swapped(d) ==
  IF Len(d) # FRAME_LEN \/ At(d, 0) # HEADER \/ At(d, 21) # TRAILER
    THEN None
    ELSE Some([rpm |-> BitOr(Shl8(At(d, 1)), At(d, 2)),
               battery |-> DivTen(At(d, 7)),
               status_byte |-> At(d, 9),
               timing_byte |-> At(d, 8)])

\* a faulty variant: rpm is read least-significant byte first
decode_rpm_le(d) ==
  IF Len(d) # FRAME_LEN \/ At(d, 0) # HEADER \/ At(d, 21) # TRAILER
    THEN None
    ELSE Some([rpm |-> BitOr(Shl8(At(d, 2)), At(d, 1)),
               battery |-> DivTen(At(d, 7)),
               status_byte |-> At(d, 8),
               timing_byte |-> At(d, 9)])

decode_cdi_packet(d) ==
  IF Len(d) # FRAME_LEN \/ At(d, 0) # HEADER \/ At(d, 21) # TRAILER
    THEN None
    ELSE Some([rpm |-> BitOr(Shl8(At(d, 1)), At(d, 2)),
               battery |-> DivTen(At(d, 7)),
               status_byte |-> At(d, 8),
               timing_byte |-> At(d, 9)])

-----------------------------------------------------------------------------
(* The map encoding: struct.pack('<H', value) and the pairwise read-back *)

\* a faulty variant: the pair is produced most-significant byte first
struct_pack_BE(v) ==
  IF v \in 0..(U16 - 1) THEN <<(v \div 256) % 256, v % 256>> ELSE <<>>

\* struct.pack('<H', value): two bytes, least-significant first; a value
\* outside 0..65535 raises struct.error (<<>> here)
struct_pack_H(v) ==
  IF v \in 0..(U16 - 1) THEN <<v % 256, (v \div 256) % 256>> ELSE <<>>

\* val = sequence[i] | (sequence[i+1] << 8), for i in range(0, len(sequence), 2)
RECURSIVE read_pairs(_)
read_pairs(bs) ==
  IF Len(bs) < 2 THEN <<>>
  ELSE <<BitOr(At(bs, 0), Shl8(At(bs, 1)))>> \o read_pairs(SubSeq(bs, 3, Len(bs)))

\* the whole encoding of a map, pair after pair
RECURSIVE encode_map(_)
encode_map(vs) ==
  IF vs = <<>> THEN <<>>
  ELSE struct_pack_H(Head(vs)) \o encode_map(Tail(vs))

-----------------------------------------------------------------------------
(* Idle values of the variable groups a specification does not use *)

IdleDec == data = <<>> /\ decoded = <<>>
IdleCodec == values = <<>> /\ data_bytes = <<>> /\ readback = <<>>
IdleMon ==
  /\ pc = "off" /\ ports = <<>> /\ cport = 0 /\ port = 0 /\ round = 1 /\ bi = 0
  /\ rxbuf = <<>> /\ pending = <<>> /\ reqs = 0 /\ mtx = <<>> /\ hs = <<>>
  /\ data_req = <<>> /\ exc = "" /\ ret = "" /\ polls = 0
  /\ row = <<>> /\ interrupted = FALSE
IdleTool ==
  /\ tpc = "off" /\ caller = "none" /\ ser = 0 /\ tports = <<>>
  /\ map_data = <<>> /\ wi = 0 /\ wj = 0 /\ tx = <<>> /\ slept = <<>>
  /\ response = <<>> /\ result = "" /\ raised = "" /\ op = ""

-----------------------------------------------------------------------------
(* SpecDecode: decode_cdi_packet applied to every frame of a bounded family *)

SyncSamples == {0, HEADER, TRAILER}
RpmSamples == {0, 13, 64, 255}
BatterySamples == {0, 114, 255}
ByteSamples == {0, 255}

\* a frame of len bytes: the bytes the decoder looks at are chosen one by
\* one, every other byte is fill
Frame(len, h, t, b1, b2, b7, b8, b9, fill) ==
  [i \in 1..len |->
     CASE i = 1 -> h
       [] i = 2 -> b1
       [] i = 3 -> b2
       [] i = 8 -> b7
       [] i = 9 -> b8
       [] i = 10 -> b9
       [] i = 22 -> t
       [] OTHER -> fill]

Frames ==
  { Frame(len, h, t, b1, b2, b7, b8, b9, fill) :
      len \in 0..MaxFrameLen, h \in SyncSamples, t \in SyncSamples,
      b1 \in RpmSamples, b2 \in RpmSamples, b7 \in BatterySamples,
      b8 \in ByteSamples, b9 \in ByteSamples, fill \in ByteSamples }

\* test_data of test(): seven hex strings, each a sequence of hex digits
test_data ==
  <<
    <<"0", "3", "0", "0", "0", "0", "0", "0", "0", "0", "0",
      "0", "0", "0", "7", "2", "1", "0", "0", "4", "0", "0",
      "0", "8", "0", "0", "0", "a", "0", "2", "0", "1", "0",
      "3", "0", "2", "0", "2", "0", "1", "a", "6", "a", "9">>,
    <<"0", "3", "0", "3", "0", "0", "0", "0", "0", "0", "0",
      "0", "0", "0", "7", "2", "1", "0", "0", "4", "0", "0",
      "0", "8", "0", "0", "0", "a", "0", "2", "0", "1", "0",
      "3", "0", "2", "0", "2", "0", "1", "a", "9", "a", "9">>,
    <<"0", "3", "0", "3", "0", "0", "0", "0", "0", "0", "0",
      "0", "0", "0", "7", "2", "1", "0", "0", "4", "0", "0",
      "0", "8", "0", "0", "0", "a", "0", "2", "0", "1", "0",
      "3", "0", "2", "0", "2", "0", "1", "a", "9", "a", "9">>,
    <<"0", "3", "0", "d", "4", "0", "0", "0", "0", "0", "0",
      "0", "0", "0", "7", "f", "0", "6", "6", "0", "0", "0",
      "0", "8", "0", "0", "2", "2", "0", "2", "0", "1", "0",
      "3", "0", "2", "0", "2", "0", "1", "6", "a", "a", "9">>,
    <<"0", "3", "0", "7", "8", "0", "0", "0", "0", "0", "0",
      "0", "0", "0", "7", "8", "0", "c", "f", "f", "0", "0",
      "0", "9", "0", "0", "1", "1", "0", "2", "0", "1", "0",
      "4", "0", "3", "0", "2", "0", "1", "3", "4", "a", "9">>,
    <<"0", "3", "0", "3", "c", "0", "0", "0", "0", "0", "0",
      "0", "0", "0", "7", "4", "0", "d", "a", "5", "0", "0",
      "0", "8", "0", "0", "0", "a", "0", "2", "0", "1", "0",
      "3", "0", "2", "0", "2", "0", "1", "0", "9", "a", "9">>,
    <<"0", "3", "0", "2", "c", "0", "0", "0", "0", "0", "0",
      "0", "0", "0", "7", "3", "0", "d", "9", "c", "0", "0",
      "0", "8", "0", "0", "0", "a", "0", "2", "0", "1", "0",
      "3", "0", "2", "0", "2", "0", "1", "f", "e", "a", "9">>
  >>

\* the value of one hex digit
HexVal(c) ==
  CASE c = "0" -> 0 [] c = "1" -> 1 [] c = "2" -> 2 [] c = "3" -> 3
    [] c = "4" -> 4 [] c = "5" -> 5 [] c = "6" -> 6 [] c = "7" -> 7
    [] c = "8" -> 8 [] c = "9" -> 9 [] c = "a" -> 10 [] c = "b" -> 11
    [] c = "c" -> 12 [] c = "d" -> 13 [] c = "e" -> 14 [] c = "f" -> 15

\* bytes.fromhex(a): one byte for every two digits, the first digit high
RECURSIVE fromhex(_)
fromhex(cs) ==
  IF Len(cs) < 2 THEN <<>>
  ELSE <<16 * HexVal(cs[1]) + HexVal(cs[2])>> \o fromhex(SubSeq(cs, 3, Len(cs)))

\* the frames test() hands to decode_cdi_packet
TestFrames == { fromhex(test_data[i]) : i \in 1..Len(test_data) }

InitDecode ==
  /\ data \in Frames \cup TestFrames
  /\ decoded = <<>>
  /\ IdleCodec /\ IdleTool /\ IdleMon

\* decoded = decode_cdi_packet(data)
Decode ==
  /\ decoded = <<>>
  /\ decoded' = Some(decode_cdi_packet(data))
  /\ UNCHANGED <<data, codecVars, toolVars, monVars>>

NextDecode == Decode

-----------------------------------------------------------------------------
(* SpecCodec: a bounded map is encoded pair by pair and read back *)

ValueSamples == {0, 255, 256, 4730, 6375, U16 - 1}

RECURSIVE SeqsUpTo(_, _)
SeqsUpTo(S, n) ==
  IF n = 0 THEN {<<>>}
  ELSE SeqsUpTo(S, n - 1) \cup
       { Append(s, x) : s \in { q \in SeqsUpTo(S, n - 1) : Len(q) = n - 1 }, x \in S }

InitCodec ==
  /\ values \in SeqsUpTo(ValueSamples, MaxMapLen)
  /\ data_bytes = <<>>
  /\ readback = <<>>
  /\ IdleDec /\ IdleTool /\ IdleMon

\* one turn of the loop: bytes_val = struct.pack('<H', value);
\* data_bytes.extend(bytes_val)
EncodeValue ==
  /\ readback = <<>>
  /\ Len(data_bytes) \div 2 < Len(values)
  /\ data_bytes' = data_bytes \o struct_pack_H(At(values, Len(data_bytes) \div 2))
  /\ UNCHANGED <<values, readback, decVars, toolVars, monVars>>

\* after the loop the pairs are read back as low | (high << 8)
ReadBack ==
  /\ readback = <<>>
  /\ Len(data_bytes) \div 2 = Len(values)
  /\ readback' = Some(read_pairs(data_bytes))
  /\ UNCHANGED <<values, data_bytes, decVars, toolVars, monVars>>

NextCodec == EncodeValue \/ ReadBack

-----------------------------------------------------------------------------
(* The serial library, as the tool and the monitor use it *)

\* serial.Serial(...) on success: a new open port object. The source of the
\* tool sets neither control line, so their state after the open is
\* whatever the library and the driver leave: either level.
NewPorts ==
  { [open |-> TRUE, dtr |-> d, rts |-> r, closes |-> 0] : d \in BOOLEAN, r \in BOOLEAN }

\* port.close(): the port is closed; closing a closed port changes nothing
\* (closes counts the calls, saturating at 2)
port_close(p) == [p EXCEPT !.open = FALSE, !.closes = IF @ < 2 THEN @ + 1 ELSE @]

\* what a write or read call on a port can do: a closed port raises
\* (PortNotOpenError, a SerialException), an open one works or fails with an
\* I/O error
IoOutcomes(p) == IF p.open THEN {"ok", "SerialException"} ELSE {"SerialException"}

\* what the device may have sent by the time of the best-effort read
ResponseSamples == {<<>>, <<6>>}

-----------------------------------------------------------------------------
(* SpecTool: CDIIgnitionMap, driven by main() or by any caller of the class *)

\* at most MaxToolOpens serial.Serial objects are created in one run
MaxToolOpens == 1

MapInputs == {<<>>, <<4730, 6375, 7573>>, test_values}

InitTool ==
  /\ caller \in {"main", "api"}
  /\ tpc = IF caller = "main" THEN "m_connect" ELSE "idle"
  /\ ser = 0                      \* __init__: self.ser = None
  /\ tports = <<>>
  /\ map_data = <<>> /\ wi = 0 /\ wj = 0 /\ tx = <<>> /\ slept = <<>>
  /\ response = <<>> /\ result = "" /\ raised = "" /\ op = ""
  /\ IdleDec /\ IdleCodec /\ IdleMon

\* where control goes when an operation of the class returns or raises
AfterOp == IF caller = "main" THEN "m_finally" ELSE "ret"

\* the effect of connect(): the open succeeds and self.ser is the new port
\* (return True), or serial.Serial raises SerialException, which is caught
\* (return False, self.ser untouched)
connect_ok(np) ==
  /\ Len(tports) < MaxToolOpens
  /\ tports' = Append(tports, np)
  /\ ser' = Len(tports) + 1

connect_failed == UNCHANGED <<ser, tports>>

\* a faulty variant: closing a port that is closed already faults
disconnect_once ==
  /\ tports' = IF ser # 0 THEN [tports EXCEPT ![ser] = port_close(@)] ELSE tports
  /\ raised' = IF ser # 0 /\ ~tports[ser].open THEN "SerialException" ELSE raised
  /\ UNCHANGED ser

\* the effect of disconnect(): if self.ser: self.ser.close(); self.ser is
\* never reset to None, and close() raises nothing
disconnect ==
  /\ tports' = IF ser # 0 THEN [tports EXCEPT ![ser] = port_close(@)] ELSE tports
  /\ UNCHANGED <<ser, raised>>

\* a caller of the class calls connect()
CallConnect ==
  /\ tpc = "idle"
  /\ op' = "connect"
  /\ \/ \E np \in NewPorts : connect_ok(np) /\ result' = "True"
     \/ connect_failed /\ result' = "False"
  /\ tpc' = "ret"
  /\ UNCHANGED <<caller, map_data, wi, wj, tx, slept, response, raised,
                 decVars, codecVars, monVars>>

\* a caller of the class calls disconnect()
CallDisconnect ==
  /\ tpc = "idle"
  /\ op' = "disconnect"
  /\ disconnect
  /\ result' = "None"
  /\ tpc' = "ret"
  /\ UNCHANGED <<caller, map_data, wi, wj, tx, slept, response,
                 decVars, codecVars, monVars>>

\* the caller takes the outcome and goes on
Return ==
  /\ tpc = "ret"
  /\ op' = ""
  /\ tpc' = "idle"
  /\ map_data' = <<>> /\ wi' = 0 /\ wj' = 0 /\ tx' = <<>> /\ slept' = <<>>
  /\ response' = <<>> /\ result' = "" /\ raised' = ""
  /\ UNCHANGED <<caller, ser, tports, decVars, codecVars, monVars>>

(* write_ignition_map(map_data) *)

\* a faulty variant: the handler reports success
except_return_true == tpc' = AfterOp /\ result' = "True"

\* a faulty variant: success is reported only if the device answered
write_result_acked(resp) == IF resp # <<>> THEN "True" ELSE "False"

\* if response: print(...) else: print(...); return True -- the value
\* returned once the read has returned resp
write_result(resp) == "True"

\* except Exception as e: print(...); return False
except_return == tpc' = AfterOp /\ result' = "False"

\* the call and the guard: if not self.ser: return False
WriteMapCall ==
  /\ tpc = "idle"
  /\ op' = "write_ignition_map"
  /\ \E m \in MapInputs : map_data' = m
  /\ IF ser = 0
       THEN tpc' = "ret" /\ result' = "False"
       ELSE tpc' = "w_cmd" /\ result' = ""
  /\ UNCHANGED <<caller, ser, tports, wi, wj, tx, slept, response, raised,
                 decVars, codecVars, monVars>>

\* self.ser.write(bytes([0x0D])); any exception: return False
WriteMapCmd ==
  /\ tpc = "w_cmd"
  /\ \E o \in IoOutcomes(tports[ser]) :
       IF o = "ok"
         THEN /\ tx' = Append(tx, WRITE_CMD) /\ slept' = Append(slept, FALSE)
              /\ tpc' = "w_byte" /\ wi' = 0 /\ wj' = 0
              /\ UNCHANGED result
         ELSE /\ except_return
              /\ UNCHANGED <<tx, slept, wi, wj>>
  /\ UNCHANGED <<caller, op, ser, tports, map_data, response, raised,
                 decVars, codecVars, monVars>>

\* for i, value in enumerate(test_values): bytes_val = struct.pack('<H', value);
\* for b in bytes_val: self.ser.write(bytes([b]))
WriteMapByte ==
  /\ tpc = "w_byte"
  /\ LET bytes_val == struct_pack_H(At(test_values, wi)) IN
     \E o \in IoOutcomes(tports[ser]) :
       IF o = "ok" /\ bytes_val # <<>>
         THEN /\ tx' = Append(tx, At(bytes_val, wj)) /\ slept' = Append(slept, FALSE)
              /\ tpc' = "w_sleep"
              /\ UNCHANGED result
         ELSE /\ except_return
              /\ UNCHANGED <<tx, slept>>
  /\ UNCHANGED <<caller, op, ser, tports, map_data, wi, wj, response, raised,
                 decVars, codecVars, monVars>>

\* time.sleep(0.001) after the byte, then the next byte, the next value, or
\* the end of the loop
WriteMapSleep ==
  /\ tpc = "w_sleep"
  /\ slept' = [slept EXCEPT ![Len(slept)] = TRUE]
  /\ IF wj = 0
       THEN wj' = 1 /\ wi' = wi /\ tpc' = "w_byte"
       ELSE /\ wj' = 0 /\ wi' = wi + 1
            /\ tpc' = IF wi + 1 < Len(test_values) THEN "w_byte" ELSE "w_read"
  /\ UNCHANGED <<caller, op, ser, tports, map_data, tx, response, result, raised,
                 decVars, codecVars, monVars>>

\* time.sleep(0.1); response = self.ser.read(100); return True whether or
\* not anything was read; an exception: return False
WriteMapRead ==
  /\ tpc = "w_read"
  /\ \E o \in IoOutcomes(tports[ser]) :
       IF o = "ok"
         THEN /\ \E r \in ResponseSamples : response' = r
              /\ result' = write_result(response') /\ tpc' = AfterOp
         ELSE response' = <<>> /\ except_return
  /\ UNCHANGED <<caller, op, ser, tports, map_data, wi, wj, tx, slept, raised,
                 decVars, codecVars, monVars>>

(* test_protocol() *)

\* the call by a caller of the class, and the guard: if not self.ser: return False
TestProtocolCall ==
  /\ tpc = "idle"
  /\ op' = "test_protocol"
  /\ IF ser = 0
       THEN tpc' = "ret" /\ result' = "False"
       ELSE tpc' = "t_cmd" /\ result' = ""
  /\ UNCHANGED <<caller, ser, tports, map_data, wi, wj, tx, slept, response,
                 raised, decVars, codecVars, monVars>>

\* self.ser.write(bytes([0x0D])): no handler here, an exception propagates
TestProtocolCmd ==
  /\ tpc = "t_cmd"
  /\ \E o \in IoOutcomes(tports[ser]) :
       IF o = "ok"
         THEN /\ tx' = Append(tx, WRITE_CMD) /\ slept' = Append(slept, FALSE)
              /\ tpc' = "t_sleep0"
              /\ UNCHANGED raised
         ELSE /\ tpc' = AfterOp /\ raised' = o
              /\ UNCHANGED <<tx, slept>>
  /\ UNCHANGED <<caller, op, ser, tports, map_data, wi, wj, response, result,
                 decVars, codecVars, monVars>>

\* time.sleep(0.01) after the command byte
TestProtocolSleep0 ==
  /\ tpc = "t_sleep0"
  /\ slept' = [slept EXCEPT ![Len(slept)] = TRUE]
  /\ tpc' = "t_byte" /\ wi' = 0 /\ wj' = 0
  /\ UNCHANGED <<caller, op, ser, tports, map_data, tx, response, result, raised,
                 decVars, codecVars, monVars>>

\* self.ser.write(bytes([sequence[i]])) and self.ser.write(bytes([sequence[i+1]]))
TestProtocolByte ==
  /\ tpc = "t_byte"
  /\ \E o \in IoOutcomes(tports[ser]) :
       IF o = "ok"
         THEN /\ tx' = Append(tx, At(sequence, 2 * wi + wj))
              /\ slept' = Append(slept, FALSE)
              /\ tpc' = "t_sleep"
              /\ UNCHANGED raised
         ELSE /\ tpc' = AfterOp /\ raised' = o
              /\ UNCHANGED <<tx, slept>>
  /\ UNCHANGED <<caller, op, ser, tports, map_data, wi, wj, response, result,
                 decVars, codecVars, monVars>>

\* time.sleep(0.001) after each of the two bytes
TestProtocolSleep ==
  /\ tpc = "t_sleep"
  /\ slept' = [slept EXCEPT ![Len(slept)] = TRUE]
  /\ IF wj = 0
       THEN wj' = 1 /\ wi' = wi /\ tpc' = "t_byte"
       ELSE /\ wj' = 0 /\ wi' = wi + 1
            /\ tpc' = IF 2 * (wi + 1) < Len(sequence) THEN "t_byte" ELSE "t_read"
  /\ UNCHANGED <<caller, op, ser, tports, map_data, tx, response, result, raised,
                 decVars, codecVars, monVars>>

\* time.sleep(0.1); response = self.ser.read(100); return True
TestProtocolRead ==
  /\ tpc = "t_read"
  /\ \E o \in IoOutcomes(tports[ser]) :
       IF o = "ok"
         THEN (\E r \in ResponseSamples : response' = r)
              /\ result' = write_result(response') /\ UNCHANGED raised
         ELSE response' = <<>> /\ raised' = o /\ UNCHANGED result
  /\ tpc' = AfterOp
  /\ UNCHANGED <<caller, op, ser, tports, map_data, wi, wj, tx, slept,
                 decVars, codecVars, monVars>>

(* main() *)

\* cdi = CDIIgnitionMap(); if not cdi.connect(): return 1; otherwise the try
\* block is entered and test_protocol() is called
MainConnect ==
  /\ tpc = "m_connect"
  /\ op' = "test_protocol"
  /\ \/ \E np \in NewPorts : connect_ok(np) /\ tpc' = "t_cmd" /\ result' = ""
     \/ connect_failed /\ tpc' = "m_done" /\ result' = "1"
  /\ UNCHANGED <<caller, map_data, wi, wj, tx, slept, response, raised,
                 decVars, codecVars, monVars>>

\* finally: cdi.disconnect(); then return 0, or the exception goes on
MainFinally ==
  /\ tpc = "m_finally"
  /\ disconnect
  /\ result' = IF raised = "" THEN "0" ELSE ""
  /\ tpc' = "m_done"
  /\ UNCHANGED <<caller, op, map_data, wi, wj, tx, slept, response,
                 decVars, codecVars, monVars>>

NextTool ==
  \/ CallConnect \/ CallDisconnect \/ Return
  \/ WriteMapCall \/ WriteMapCmd \/ WriteMapByte \/ WriteMapSleep \/ WriteMapRead
  \/ TestProtocolCall \/ TestProtocolCmd \/ TestProtocolSleep0
  \/ TestProtocolByte \/ TestProtocolSleep \/ TestProtocolRead
  \/ MainConnect \/ MainFinally

-----------------------------------------------------------------------------
(* Spec: the monitor. main() calls connect_and_read_data() in a loop, which
   calls connect_to_cdi() and then polls. *)

\* at most MaxOpens serial.Serial objects are created in one run
MaxOpens == 2
\* at most MaxPolls poll cycles are started in one run
MaxPolls == 2
\* the bytes of a response reach the input buffer half a frame at a time
ArriveChunk == FRAME_LEN \div 2

\* frames the device may answer a poll request with: the fourth vector of
\* the monitor's test data and the all-zero frame; an init frame of the
\* handshake is answered with the first of them, or not at all
ValidFrame == <<3, 13, 64, 0, 0, 0, 0, 127, 6, 96, 0, 8, 0, 34, 2, 1, 3, 2, 2,
                1, 106, 169>>
ZeroFrame == [i \in 1..FRAME_LEN |-> 0]
DeviceFrames == {ValidFrame, ZeroFrame}
AckFrames == {ValidFrame}

\* the bytes of frame f, each tagged with the request it answers
Tagged(f, r) == [i \in 1..Len(f) |-> [b |-> f[i], req |-> r]]
Untag(s) == [i \in 1..Len(s) |-> s[i].b]
Tags(s) == [i \in 1..Len(s) |-> s[i].req]

\* what a call on the port can do: work, raise SerialException, or raise
\* another exception (an OSError of the driver)
MonIoOutcomes == {"ok", "SerialException", "Exception"}

\* a faulty variant: KeyboardInterrupt is caught by the general handler
Handler_catch_all(e) ==
  CASE e = "SerialException" -> "x_serial"
    [] OTHER -> "x_other"

\* the handler of connect_and_read_data that catches exception e
Handler(e) ==
  CASE e = "KeyboardInterrupt" -> "x_kbd"
    [] e = "SerialException" -> "x_serial"
    [] OTHER -> "x_other"

\* the state of one connection attempt: the buffers of the port in use and
\* the locals and logs of the handshake and of the poll loop
connVars == <<round, bi, rxbuf, pending, reqs, mtx, hs, data_req, data, decoded,
              row>>
otherVars == <<codecVars, toolVars>>

FreshConn ==
  /\ round' = 1 /\ bi' = 0 /\ rxbuf' = <<>> /\ pending' = <<>> /\ reqs' = 0
  /\ mtx' = <<>> /\ hs' = <<>> /\ data_req' = <<>> /\ data' = <<>> /\ decoded' = <<>>
  /\ row' = <<>>

InitMon ==
  /\ pc = "main"
  /\ ports = <<>> /\ cport = 0 /\ port = 0
  /\ round = 1 /\ bi = 0
  /\ rxbuf = <<>> /\ pending = <<>> /\ reqs = 0
  /\ mtx = <<>> /\ hs = <<>> /\ data_req = <<>>
  /\ exc = "" /\ ret = "" /\ polls = 0
  /\ row = <<>> /\ interrupted = FALSE
  /\ IdleDec /\ IdleCodec /\ IdleTool

\* an exception e is raised inside the try block of connect_and_read_data:
\* control goes to the handler, the port is not read or written again (its
\* buffers and the loop's locals are forgotten)
Raise(e) == pc' = Handler(e) /\ FreshConn

(* main *)

\* while True: try: if (connect_and_read_data(port_name)): the call; the
\* locals of the new frame are unbound
MainCall ==
  /\ pc = "main"
  /\ pc' = "c_open"
  /\ port' = 0 /\ cport' = 0 /\ ret' = "" /\ exc' = ""
  /\ UNCHANGED <<ports, polls, connVars, interrupted, otherVars>>

\* except KeyboardInterrupt: print(...); break
MainKbd ==
  /\ pc = "main_kbd"
  /\ pc' = "done"
  /\ exc' = ""
  /\ UNCHANGED <<ports, cport, port, ret, polls, connVars, interrupted, otherVars>>

(* connect_to_cdi *)

\* port = serial.Serial(port=port_name, baudrate=19200, timeout=1.0)
ConnectOpen ==
  /\ pc = "c_open"
  /\ \/ /\ Len(ports) < MaxOpens
        /\ \E np \in NewPorts : ports' = Append(ports, np)
        /\ cport' = Len(ports) + 1
        /\ pc' = "c_dtr"
        /\ UNCHANGED connVars
     \/ /\ Raise("SerialException")
        /\ UNCHANGED <<ports, cport>>
  /\ UNCHANGED <<port, exc, ret, polls, interrupted, otherVars>>

\* port.dtr = True
ConnectDtr ==
  /\ pc = "c_dtr"
  /\ \E o \in MonIoOutcomes :
       IF o = "ok"
         THEN /\ ports' = [ports EXCEPT ![cport].dtr = TRUE]
              /\ pc' = "c_rts"
              /\ UNCHANGED connVars
         ELSE Raise(o) /\ UNCHANGED ports
  /\ UNCHANGED <<cport, port, exc, ret, polls, interrupted, otherVars>>

\* port.rts = True; then the handshake loop starts with round 1
ConnectRts ==
  /\ pc = "c_rts"
  /\ \E o \in MonIoOutcomes :
       IF o = "ok"
         THEN /\ ports' = [ports EXCEPT ![cport].rts = TRUE]
              /\ pc' = "c_write"
              /\ UNCHANGED connVars
         ELSE Raise(o) /\ UNCHANGED ports
  /\ UNCHANGED <<cport, port, exc, ret, polls, interrupted, otherVars>>

\* what the device does once the fourth byte of a request frame is on the
\* wire: it answers with a frame, or stays silent
DeviceAnswers(r, frames) == {<<>>} \cup { Tagged(f, r) : f \in frames }

\* for byte in init_bytes: port.write(bytes([byte])), one byte per step:
\* byte i goes out; after the last byte the device has the whole frame
write_frame_byte(i, frames) ==
  /\ mtx' = IF i = 0 THEN <<At(init_bytes, 0)>> ELSE Append(mtx, At(init_bytes, i))
  /\ IF i + 1 < Len(init_bytes)
       THEN bi' = i + 1 /\ UNCHANGED <<reqs, pending>>
       ELSE /\ bi' = 0 /\ reqs' = reqs + 1
            /\ \E a \in DeviceAnswers(reqs + 1, frames) : pending' = pending \o a

\* for byte in init_bytes: port.write(bytes([byte]))
ConnectWrite ==
  /\ pc = "c_write"
  /\ \E o \in MonIoOutcomes :
       IF o = "ok"
         THEN /\ write_frame_byte(bi, AckFrames)
              /\ pc' = IF bi' = 0 THEN "c_sleep" ELSE "c_write"
              /\ UNCHANGED <<round, rxbuf, hs, data_req, data, decoded, row>>
         ELSE Raise(o)
  /\ UNCHANGED <<ports, cport, port, exc, ret, polls, interrupted, otherVars>>

\* sleep(0.1) after the four bytes
ConnectSleep ==
  /\ pc = "c_sleep"
  /\ pc' = "c_check"
  /\ UNCHANGED <<ports, cport, port, exc, ret, polls, connVars, interrupted, otherVars>>

\* for round in [1, 2]
HandshakeRounds == 2

\* the end of one handshake round: the next round, or return port, which
\* connect_and_read_data binds to its local port before the poll loop
EndRound(seen) ==
  /\ hs' = Append(hs, [tx |-> mtx, seen |-> seen])
  /\ mtx' = <<>>
  /\ IF round < HandshakeRounds
       THEN round' = round + 1 /\ pc' = "c_write" /\ UNCHANGED <<port, cport>>
       ELSE round' = 1 /\ pc' = "p_write" /\ port' = cport /\ cport' = 0

\* if port.in_waiting > 0: ... else: print(" No response")
ConnectCheck ==
  /\ pc = "c_check"
  /\ \E o \in MonIoOutcomes :
       IF o = "ok"
         THEN IF Len(rxbuf) > 0
                THEN pc' = "c_read" /\ UNCHANGED <<port, cport, connVars>>
                ELSE /\ EndRound(FALSE)
                     /\ UNCHANGED <<bi, rxbuf, pending, reqs, data_req, data, decoded, row>>
         ELSE Raise(o) /\ UNCHANGED <<port, cport>>
  /\ UNCHANGED <<ports, exc, ret, polls, interrupted, otherVars>>

\* a faulty variant: only one byte of the response is read
read_one(buf) == IF Len(buf) > 0 THEN 1 ELSE 0

\* port.read(port.in_waiting): the number of bytes read is the number
\* waiting when the call is made
read_in_waiting(buf) == Len(buf)

\* response = port.read(port.in_waiting): the bytes are dropped unread
ConnectRead ==
  /\ pc = "c_read"
  /\ \E o \in MonIoOutcomes :
       IF o = "ok"
         THEN /\ rxbuf' = SubSeq(rxbuf, read_in_waiting(rxbuf) + 1, Len(rxbuf))
              /\ EndRound(TRUE)
              /\ UNCHANGED <<bi, pending, reqs, data_req, data, decoded, row>>
         ELSE Raise(o) /\ UNCHANGED <<port, cport>>
  /\ UNCHANGED <<ports, exc, ret, polls, interrupted, otherVars>>

(* connect_and_read_data: the poll loop *)

\* request = [0x01, 0xAB, 0xAC, 0xA1]; for byte in request:
\* port.write(bytes([byte]))
PollWrite ==
  /\ pc = "p_write"
  /\ bi > 0 \/ polls < MaxPolls
  /\ \E o \in MonIoOutcomes :
       IF o = "ok"
         THEN /\ write_frame_byte(bi, DeviceFrames)
              /\ polls' = IF bi = 0 THEN polls + 1 ELSE polls
              /\ pc' = IF bi' = 0 THEN "p_sleep1" ELSE "p_write"
              /\ data' = <<>> /\ decoded' = <<>> /\ data_req' = <<>>
              /\ hs' = <<>> /\ row' = <<>>
              /\ UNCHANGED <<round, rxbuf>>
         ELSE Raise(o) /\ UNCHANGED polls
  /\ UNCHANGED <<ports, cport, port, exc, ret, interrupted, otherVars>>

\* sleep(0.1) between the request and the check
PollSleep1 ==
  /\ pc = "p_sleep1"
  /\ pc' = "p_check"
  /\ UNCHANGED <<ports, cport, port, exc, ret, polls, connVars, interrupted, otherVars>>

\* a faulty variant: any waiting byte starts a read
poll_ready_any(n) == n > 0

\* if port.in_waiting >= 22
poll_ready(n) == n >= FRAME_LEN

\* the check of the bytes waiting: a read follows, or the cycle ends
PollCheck ==
  /\ pc = "p_check"
  /\ \E o \in MonIoOutcomes :
       IF o = "ok"
         THEN /\ pc' = IF poll_ready(Len(rxbuf)) THEN "p_read" ELSE "p_sleep2"
              /\ UNCHANGED connVars
         ELSE Raise(o)
  /\ UNCHANGED <<ports, cport, port, exc, ret, polls, interrupted, otherVars>>

\* port.read(22) returns the first 22 bytes waiting, or fewer when the
\* timeout ends the read
read_n(buf, n) == SubSeq(buf, 1, IF Len(buf) < n THEN Len(buf) ELSE n)

\* the row printed for an invalid packet
Placeholder == [placeholder |-> TRUE, cells |-> <<>>]

\* the row of a packet: rpm, battery, timing byte and status byte
DataRow(p) ==
  [placeholder |-> FALSE,
   cells |-> <<p.rpm, p.battery, p.timing_byte, p.status_byte>>]

\* a faulty variant: the packet is formatted without the test for None, and
\* None cannot be subscripted (TypeError)
pretty_print_unguarded(d) ==
  IF d = None
    THEN [raises |-> TRUE, row |-> Placeholder]
    ELSE [raises |-> FALSE, row |-> DataRow(d[1])]

\* pretty_print(data): the placeholder row for None, otherwise the row of
\* the four fields; the time stamp of the row is left out
pretty_print(d) ==
  IF d = None
    THEN [raises |-> FALSE, row |-> Placeholder]
    ELSE [raises |-> FALSE, row |-> DataRow(d[1])]

\* data = port.read(22); decoded = decode_cdi_packet(data); pretty_print(decoded)
PollRead ==
  /\ pc = "p_read"
  /\ \E o \in MonIoOutcomes :
       IF o = "ok"
         THEN LET printed == pretty_print(decode_cdi_packet(Untag(read_n(rxbuf, FRAME_LEN)))) IN
              IF printed.raises
                THEN Raise("Exception")
                ELSE /\ data' = Untag(read_n(rxbuf, FRAME_LEN))
                     /\ data_req' = Tags(read_n(rxbuf, FRAME_LEN))
                     /\ rxbuf' = SubSeq(rxbuf, Len(read_n(rxbuf, FRAME_LEN)) + 1, Len(rxbuf))
                     /\ decoded' = Some(decode_cdi_packet(data'))
                     /\ row' = Some(printed.row)
                     /\ pc' = "p_sleep2"
                     /\ UNCHANGED <<round, bi, pending, reqs, mtx, hs>>
         ELSE Raise(o)
  /\ UNCHANGED <<ports, cport, port, exc, ret, polls, interrupted, otherVars>>

\* sleep(0.1) before the next request
PollSleep2 ==
  /\ pc = "p_sleep2"
  /\ pc' = "p_write"
  /\ UNCHANGED <<ports, cport, port, exc, ret, polls, connVars, interrupted, otherVars>>

(* connect_and_read_data: the handlers *)

\* except KeyboardInterrupt: print(...); return 1
ExceptKbd ==
  /\ pc = "x_kbd"
  /\ pc' = "finally" /\ ret' = "1" /\ cport' = 0
  /\ UNCHANGED <<ports, port, exc, polls, connVars, interrupted, otherVars>>

\* except serial.SerialException as e: print(...); sleep(1)
ExceptSerial ==
  /\ pc = "x_serial"
  /\ pc' = "finally" /\ cport' = 0
  /\ UNCHANGED <<ports, port, exc, ret, polls, connVars, interrupted, otherVars>>

\* except Exception as e: print(...); sleep(1)
ExceptOther ==
  /\ pc = "x_other"
  /\ pc' = "finally" /\ cport' = 0
  /\ UNCHANGED <<ports, port, exc, ret, polls, connVars, interrupted, otherVars>>

\* finally: if 'port' in locals(): port.close()
finally_close(ps, p) == IF p # 0 THEN [ps EXCEPT ![p] = port_close(@)] ELSE ps

\* a faulty variant: main's loop ends on any return
main_after_once(e, r) == IF e # "" THEN "main_kbd" ELSE "done"

\* where the function's exit leads in main: an exception e on its way out
\* is a KeyboardInterrupt, caught in main; if (connect_and_read_data(...)):
\* break ends the loop on a return of 1; a return of None loops
main_after(e, r) ==
  IF e # "" THEN "main_kbd" ELSE IF r = "1" THEN "done" ELSE "main"

\* the finally block, and then the function's exit
Finally ==
  /\ pc = "finally"
  /\ ports' = finally_close(ports, port)
  /\ pc' = main_after(exc, ret)
  /\ UNCHANGED <<cport, port, exc, ret, polls, connVars, interrupted, otherVars>>

(* the environment *)

InTry ==
  pc \in {"c_open", "c_dtr", "c_rts", "c_write", "c_sleep", "c_check", "c_read",
          "p_write", "p_sleep1", "p_check", "p_read", "p_sleep2"}

\* Ctrl+C: KeyboardInterrupt is raised wherever control is. Inside the try
\* block it is caught by the function's handler; inside a handler it leaves
\* the function through the finally block; inside the finally block it
\* leaves before the close; in main it is caught by main's handler.
Interrupt ==
  /\ pc \notin {"done", "main_kbd"}
  /\ CASE InTry ->
            Raise("KeyboardInterrupt") /\ UNCHANGED <<exc, cport>>
       [] pc \in {"x_kbd", "x_serial", "x_other"} ->
            pc' = "finally" /\ exc' = "KeyboardInterrupt" /\ cport' = 0
              /\ UNCHANGED connVars
       [] OTHER ->
            pc' = "main_kbd" /\ exc' = "KeyboardInterrupt"
              /\ UNCHANGED <<cport, connVars>>
  /\ interrupted' = TRUE
  /\ UNCHANGED <<ports, port, ret, polls, otherVars>>

\* bytes the device has sent reach the input buffer of the open port
DeviceArrive ==
  /\ pending # <<>>
  /\ InTry
  /\ LET n == IF Len(pending) < ArriveChunk THEN Len(pending) ELSE ArriveChunk IN
       /\ rxbuf' = rxbuf \o SubSeq(pending, 1, n)
       /\ pending' = SubSeq(pending, n + 1, Len(pending))
  /\ UNCHANGED <<pc, ports, cport, port, exc, ret, polls, round, bi, reqs, mtx,
                 hs, data_req, data, decoded, row, interrupted, otherVars>>

\* a port object no name refers to any more may be finalized by the
\* runtime at any time, which closes it (io.IOBase.__del__); when, or
\* whether, is not decided by this code
Finalize ==
  /\ pc # "done"
  /\ \E p \in 1..Len(ports) :
       /\ ports[p].open /\ p # port /\ p # cport
       /\ ports' = [ports EXCEPT ![p] = port_close(@)]
  /\ UNCHANGED <<pc, cport, port, exc, ret, polls, connVars, interrupted, otherVars>>

Next ==
  \/ MainCall \/ MainKbd
  \/ ConnectOpen \/ ConnectDtr \/ ConnectRts \/ ConnectWrite \/ ConnectSleep
  \/ ConnectCheck \/ ConnectRead
  \/ PollWrite \/ PollSleep1 \/ PollCheck \/ PollRead \/ PollSleep2
  \/ ExceptKbd \/ ExceptSerial \/ ExceptOther \/ Finally
  \/ Interrupt \/ DeviceArrive \/ Finalize

-----------------------------------------------------------------------------
vars == <<decVars, codecVars, toolVars, monVars>>

SpecDecode == InitDecode /\ [][NextDecode]_vars
SpecCodec == InitCodec /\ [][NextCodec]_vars
SpecTool == InitTool /\ [][NextTool]_vars
Spec == InitMon /\ [][Next]_vars

\* the steps of the program itself: Python runs the next statement, every
\* sleep ends, and every call on the port returns or raises (the port is
\* opened with timeout=1.0)
ProgramStep ==
  \/ MainCall \/ MainKbd
  \/ ConnectOpen \/ ConnectDtr \/ ConnectRts \/ ConnectWrite \/ ConnectSleep
  \/ ConnectCheck \/ ConnectRead
  \/ PollWrite \/ PollSleep1 \/ PollCheck \/ PollRead \/ PollSleep2
  \/ ExceptKbd \/ ExceptSerial \/ ExceptOther \/ Finally

\* the monitor without the finalizer, which changes only port objects the
\* program no longer refers to and so never changes what a program step does
NextLive == ProgramStep \/ Interrupt \/ DeviceArrive

\* the monitor under the assumption that the program keeps running; the
\* user and the device are under no obligation
SpecLive == InitMon /\ [][NextLive]_vars /\ WF_vars(ProgramStep)

-----------------------------------------------------------------------------
(* Properties *)

\* C1: decode_cdi_packet returns None for every frame whose length is not
\* 22, and for every 22-byte frame whose byte 0 is not 0x03 or whose byte 21
\* is not 0xA9 (the empty frame and the all-zero frame included).
C1_InvalidFrames ==
  (decoded # <<>> /\ (Len(data) # 22 \/ data[1] # 3 \/ data[22] # 169))
    => decoded = Some(None)

\* the all-zero frame of 22 bytes has been decoded, as None
C1_Witness ==
  /\ data = [i \in 1..22 |-> 0]
  /\ decoded = Some(None)

\* C2: for every 22-byte frame with byte 0 = 0x03 and byte 21 = 0xA9 the
\* result is a packet with exactly the four fields rpm = 256*byte[1] +
\* byte[2], battery = byte[7] tenths of a volt, status = byte[8] and
\* timing = byte[9]; nothing else of the frame enters the result.
C2_ValidFields ==
  (decoded # <<>> /\ Len(data) = 22 /\ data[1] = 3 /\ data[22] = 169)
    => /\ decoded[1] # None
       /\ LET p == decoded[1][1] IN
            /\ DOMAIN p = {"rpm", "battery", "status_byte", "timing_byte"}
            /\ p.rpm = 256 * data[2] + data[3]
            /\ p.battery.tenths \in 0..9
            /\ 10 * p.battery.volts + p.battery.tenths = data[8]
            /\ p.status_byte = data[9]
            /\ p.timing_byte = data[10]

\* a valid frame with rpm bytes 0D 40 and every reserved byte 0xFF has been
\* decoded
C2_Witness ==
  /\ decoded # <<>> /\ decoded[1] # None
  /\ decoded[1][1].rpm = 3392
  /\ data[4] = 255 /\ data[8] = 114

\* C3: a write_ignition_map(map_data) that reports success has written the
\* command byte 0x0D and then, for each value of map_data in order, its low
\* byte and its high byte, and nothing else.
C3_WriteMapStream ==
  (op = "write_ignition_map" /\ result = "True")
    => tx = <<13>> \o encode_map(map_data)

\* C4: the encoding of N values is 2N bytes, and reading the bytes back
\* pairwise as low | (high << 8) gives the values again.
C4_RoundTrip ==
  /\ Len(data_bytes) <= 2 * Len(values)
  /\ readback # <<>>
       => /\ Len(data_bytes) = 2 * Len(values)
          /\ readback[1] = values

\* three values, among them the largest one, have been encoded and read back
C4_Witness ==
  /\ values = <<4730, 6375, 65535>>
  /\ data_bytes = <<122, 18, 231, 24, 255, 255>>
  /\ readback # <<>>

\* C5 (the ignition-map tool's connection): once a byte has been written to
\* the tool's port, both DTR and RTS of that port are high.
C5_ToolLinesHigh ==
  (ser # 0 /\ tx # <<>>) => (tports[ser].dtr /\ tports[ser].rts)

\* C5 (the monitor's connection): once a byte has been written to the
\* monitor's port, both DTR and RTS of that port are high.
MonitorLinesHigh ==
  \A p \in 1..Len(ports) :
    ((p = cport \/ p = port) /\ (mtx # <<>> \/ reqs > 0))
      => (ports[p].dtr /\ ports[p].rts)

\* C6: whenever control is back in main (connect_and_read_data has returned
\* or has let an exception out), no port opened by the monitor is open.
C6_ReleasedOnExit ==
  pc \in {"main", "main_kbd", "done"}
    => \A p \in 1..Len(ports) : ~ports[p].open

\* C7: at most one port opened by the monitor is open.
C7_AtMostOneOpen ==
  Cardinality({ p \in 1..Len(ports) : ports[p].open }) <= 1

\* the handshake has just returned: the first poll cycle has not written yet
HandshakeReturned == pc = "p_write" /\ bi = 0 /\ mtx = <<>>

\* C8: the handshake makes exactly two rounds, each writing 01 AB AC A1 and
\* then checking the bytes waiting; a round that saw nothing is followed by
\* the next round or by the return like one that saw a response; a read made
\* in a round takes every byte waiting, whatever the bytes are.
C8_HandshakeRounds ==
  /\ (pc \in {"c_write", "c_sleep", "c_check", "c_read"})
       => (Len(hs) < 2 /\ round = Len(hs) + 1)
  /\ (pc \in {"c_sleep", "c_check", "c_read"}) => mtx = <<1, 171, 172, 161>>
  /\ HandshakeReturned
       => (Len(hs) = 2 /\ \A i \in 1..2 : hs[i].tx = <<1, 171, 172, 161>>)

C8_HandshakeSteps ==
  /\ (pc = "c_check" /\ pc' \in {"c_write", "p_write"})
       => (rxbuf = <<>> /\ hs' = Append(hs, [tx |-> mtx, seen |-> FALSE]))
  /\ (pc = "c_check" /\ pc' = "c_read") => rxbuf # <<>>
  /\ (pc = "c_read" /\ pc' \in {"c_write", "p_write"})
       => (rxbuf' = <<>> /\ hs' = Append(hs, [tx |-> mtx, seen |-> TRUE]))
  /\ (pc \in {"c_check", "c_read"} /\ pc' = "c_write") => Len(hs) = 0
  /\ (pc \in {"c_check", "c_read"} /\ pc' = "p_write") => Len(hs) = 1

C8_Handshake == []C8_HandshakeRounds /\ [][C8_HandshakeSteps]_vars

\* the handshake has returned after a silent first round and a second round
\* that saw a response
C8_Witness ==
  /\ HandshakeReturned
  /\ Len(hs) = 2 /\ ~hs[1].seen /\ hs[2].seen

\* C9: a poll cycle writes 01 AB AC A1 once; with fewer than 22 bytes
\* waiting it reads nothing and decodes nothing; otherwise it reads exactly
\* the first 22 bytes waiting and hands exactly those to decode_cdi_packet.
C9_PollCycle ==
  (pc \in {"p_sleep1", "p_check", "p_read", "p_sleep2"})
    => mtx = <<1, 171, 172, 161>>

C9_PollSteps ==
  /\ (pc = "p_check" /\ pc' \in {"p_read", "p_sleep2"})
       => IF Len(rxbuf) < 22
            THEN pc' = "p_sleep2" /\ rxbuf' = rxbuf /\ data' = <<>> /\ decoded' = <<>>
            ELSE pc' = "p_read"
  /\ (pc = "p_read" /\ pc' = "p_sleep2")
       => /\ Len(data') = 22
          /\ data' = Untag(SubSeq(rxbuf, 1, 22))
          /\ rxbuf' = SubSeq(rxbuf, 23, Len(rxbuf))
          /\ decoded' = Some(decode_cdi_packet(data'))
  /\ (pc = "p_sleep2" /\ pc' = "p_write") => UNCHANGED <<rxbuf, mtx>>

C9_PollOnce == []C9_PollCycle /\ [][C9_PollSteps]_vars

\* a cycle has ended without a read while half a frame was waiting
C9_Witness ==
  /\ pc = "p_sleep2"
  /\ Len(rxbuf) = 11
  /\ decoded = <<>>

\* C10: every frame handed to decode_cdi_packet is made of bytes of the
\* response to the request written last.
C10_FreshFrame ==
  (pc = "p_sleep2" /\ decoded # <<>>)
    => \A i \in 1..Len(data_req) : data_req[i] = reqs

\* C11: after a failure of the transport (the handler of SerialException or
\* of Exception has been entered, from the open, the handshake or the poll
\* loop) the monitor attempts the open again unless Ctrl+C is pressed, every
\* time; and main's loop ends only after Ctrl+C.
C11_Failed == pc \in {"x_serial", "x_other"}

C11_Reconnect ==
  /\ C11_Failed ~> (pc = "c_open" \/ interrupted)
  /\ [](pc = "done" => interrupted)

\* the open is attempted again after a connection that polled has failed,
\* and Ctrl+C has not been pressed
C11_Witness ==
  /\ pc = "c_open" /\ ~interrupted
  /\ Len(ports) >= 1 /\ polls >= 1

\* C12: once Ctrl+C has been pressed, wherever control was, the monitor is on
\* its way out: no byte of a request frame is written any more, no port is
\* opened any more, and main's loop ends.
C12_Stopping == interrupted => pc \in {"x_kbd", "finally", "main_kbd", "done"}

C12_NoMoreIO ==
  interrupted
    => /\ mtx' = mtx /\ reqs' = reqs
       /\ ports' = ports \/ Len(ports') = Len(ports)
       /\ pc' # "c_open"

C13_InvalidRead ==
  /\ (pc = "p_read" /\ decode_cdi_packet(Untag(read_n(rxbuf, FRAME_LEN))) = None)
       => ENABLED (PollRead /\ pc' = "p_sleep2")
  /\ (pc = "p_sleep2" /\ decoded = Some(None))
       => (port # 0 /\ ports[port].open /\ exc = "" /\ ret = ""
             /\ row # <<>> /\ row[1].placeholder)

C13_InvalidSteps ==
  /\ (pc = "p_read" /\ pc' = "p_sleep2" /\ decoded' = Some(None))
       => (row' # <<>> /\ row'[1].placeholder /\ UNCHANGED <<ports, port, exc, ret>>)
  /\ (pc = "p_sleep2" /\ decoded = Some(None) /\ pc' # pc)
       => (interrupted' \/ (pc' = "p_write" /\ UNCHANGED <<ports, port, reqs>>))

C13_InvalidNoAbort == []C13_InvalidRead /\ [][C13_InvalidSteps]_vars

\* the all-zero frame has been read and printed as the placeholder row, and
\* the next poll cycle is about to write its request on the same open port
C13_Witness ==
  /\ pc = "p_write" /\ bi = 0
  /\ data = ZeroFrame /\ decoded = Some(None)
  /\ row # <<>> /\ row[1].placeholder
  /\ port # 0 /\ ports[port].open

\* the bytes a complete write_ignition_map puts on the wire
MapStream == <<WRITE_CMD>> \o encode_map(test_values)

\* C14: a write of write_ignition_map that fails (the command byte or a data
\* byte: the step leaves the write without a byte added) ends the call at
\* once with False and without an exception; the call that has ended has
\* written a prefix of the stream, shorter than the stream only if it
\* reports False, and nothing is written after it has ended.
C14_AbortSteps ==
  /\ (tpc \in {"w_cmd", "w_byte"} /\ tx' = tx)
       => (tpc' = "ret" /\ result' = "False" /\ raised' = "")
  /\ (op = "write_ignition_map" /\ tpc = "ret") => tx' = <<>>

C14_Aborted ==
  (op = "write_ignition_map" /\ tpc = "ret")
    => /\ Len(tx) <= Len(MapStream)
       /\ tx = SubSeq(MapStream, 1, Len(tx))
       /\ Len(tx) < Len(MapStream) => result = "False"

C14_WriteAbort == []C14_Aborted /\ [][C14_AbortSteps]_vars

\* a write on an open port has ended with False after the command byte and
\* the low byte of the first value
C14_Witness ==
  /\ op = "write_ignition_map" /\ tpc = "ret"
  /\ ser # 0 /\ tports[ser].open
  /\ tx = <<13, 122>> /\ result = "False"

\* C15: a disconnect() of the tool on a port that is closed already returns
\* without an exception and leaves the object as it was, closed; and a port
\* that has been closed is closed whatever the number of closes.
C15_SecondClose ==
  (tpc = "idle" /\ op' = "disconnect" /\ ser # 0 /\ ~tports[ser].open)
    => /\ tpc' = "ret" /\ raised' = "" /\ result' = "None"
       /\ ser' = ser
       /\ ~tports'[ser].open
       /\ tports'[ser].dtr = tports[ser].dtr /\ tports'[ser].rts = tports[ser].rts

C15_Closed ==
  /\ \A p \in 1..Len(tports) : tports[p].closes >= 1 => ~tports[p].open
  /\ (op = "disconnect" /\ tpc = "ret") => raised = ""

C16_Paced ==
  (op \in {"write_ignition_map", "test_protocol"})
    => \A k \in 1..(Len(tx) - 1) : slept[k]

\* C16 (test_protocol alone): a delay follows every byte written before the
\* next byte is written.
TestProtocolPaced ==
  (op = "test_protocol") => \A k \in 1..(Len(tx) - 1) : slept[k]

\* C17: while the backoff wait that follows a failure of the connected
\* transport is in progress (control is in a handler that sleeps, and the
\* function has its port bound), the port is closed.
C17_ClosedDuringBackoff ==
  (pc \in {"x_serial", "x_other"} /\ port # 0) => ~ports[port].open

\* C17 (the order the source has): the port is open during the backoff wait
\* and is closed after it; the next open is attempted only after both.
BackoffThenClose ==
  /\ (pc \in {"x_serial", "x_other"} /\ port # 0 /\ pc' # pc)
       => (pc' = "finally" /\ ports[port].open /\ UNCHANGED <<ports, port>>)
  /\ (pc = "finally" /\ port # 0 /\ pc' # pc /\ ~interrupted')
       => (~ports'[port].open /\ pc' \in {"main", "main_kbd", "done"})
  /\ (pc' = "c_open" /\ pc # "c_open")
       => (pc = "main" /\ (port # 0 => ~ports[port].open))

BackoffOrder == [][BackoffThenClose]_vars

\* C18: once every byte of the stream is written, the read that follows on
\* the open port can return bytes or none, and the call returns True either
\* way (write_ignition_map and test_protocol alike); a read that returns
\* changes nothing but the response reported.
C18_AnyResponse ==
  /\ (tpc = "w_read" /\ tports[ser].open)
       => /\ tx = MapStream
          /\ \A r \in ResponseSamples :
               ENABLED (WriteMapRead /\ response' = r /\ result' = "True"
                          /\ tpc' = AfterOp /\ raised' = "")
  /\ (tpc = "t_read" /\ tports[ser].open)
       => /\ tx = <<WRITE_CMD>> \o sequence
          /\ \A r \in ResponseSamples :
               ENABLED (TestProtocolRead /\ response' = r /\ result' = "True"
                          /\ tpc' = AfterOp /\ raised' = "")

C18_ReadSteps ==
  (tpc \in {"w_read", "t_read"} /\ result' = "True")
    => (response' \in ResponseSamples /\ UNCHANGED <<tx, slept, ser, tports, raised>>)

C18_ResponseIgnored == []C18_AnyResponse /\ [][C18_ReadSteps]_vars

\* write_ignition_map has returned True after a read that returned nothing
C18_Witness ==
  /\ op = "write_ignition_map" /\ tpc = "ret"
  /\ tx = MapStream /\ response = <<>>
  /\ result = "True"

\* the fields of the seven vectors of test_data, worked out by hand from
\* their hex digits: rpm, battery (volts, tenths), status byte, timing byte
TestFields ==
  << <<0, 11, 4, 16, 4>>,
     <<768, 11, 4, 16, 4>>,
     <<768, 11, 4, 16, 4>>,
     <<3392, 12, 7, 6, 96>>,
     <<1920, 12, 0, 12, 255>>,
     <<960, 11, 6, 13, 165>>,
     <<704, 11, 5, 13, 156>> >>

\* C19: each of the seven vectors of test_data decodes to a packet, not to
\* None, and the packet has the fields worked out from the vector's digits:
\* rpm 3392 for the fourth vector and rpm 0 for the first.
C19_ReferenceVectors ==
  \A i \in 1..Len(test_data) :
    (data = fromhex(test_data[i]) /\ decoded # <<>>)
      => /\ Len(data) = 22
         /\ decoded[1] # None
         /\ decoded[1][1] = [rpm |-> TestFields[i][1],
                             battery |-> [volts |-> TestFields[i][2],
                                          tenths |-> TestFields[i][3]],
                             status_byte |-> TestFields[i][4],
                             timing_byte |-> TestFields[i][5]]

\* the fourth vector has been decoded, with rpm 3392
C19_Witness ==
  /\ data = fromhex(test_data[4])
  /\ decoded # <<>> /\ decoded[1] # None
  /\ decoded[1][1].rpm = 3392 /\ decoded[1][1].timing_byte = 96

\* the tool has no open connection: self.ser is None (connect() was never
\* called, or failed), or the port self.ser refers to has been closed
NotConnected == ser = 0 \/ ~tports[ser].open

\* C20: a write_ignition_map or test_protocol called while the tool has no
\* open connection has written no byte, has returned False and has raised
\* nothing.
C20_NotConnectedGuard ==
  (op \in {"write_ignition_map", "test_protocol"} /\ tpc = "ret" /\ NotConnected)
    => (tx = <<>> /\ result = "False" /\ raised = "")

\* C20 (the cases in which the source does so): both operations while
\* self.ser is None, and write_ignition_map after disconnect().
GuardedCases ==
  (/\ op \in {"write_ignition_map", "test_protocol"} /\ tpc = "ret" /\ NotConnected
   /\ (ser = 0 \/ op = "write_ignition_map"))
    => (tx = <<>> /\ result = "False" /\ raised = "")

\* C20 (in every case): no byte is written without an open connection.
NoByteWhenNotConnected ==
  (op \in {"write_ignition_map", "test_protocol"} /\ tpc = "ret" /\ NotConnected)
    => tx = <<>>

====
